---- MODULE Spec2Model ----
(***************************************************************************)
(* Model of doozerlib/cli/scan_sources_konflux.py (ConfigScanSources):     *)
(* the rebuild decision of one (component, target) pair, the marking of    *)
(* changing images with its ancestor push, the builder fixed-point pass    *)
(* and the scan that drives them.                                          *)
(***************************************************************************)
EXTENDS Integers, Sequences, FiniteSets, TLC

VARIABLES
    db,                   \* the build record store: a set of build records
    upstream,             \* component -> latest upstream commit of its branch
    now,                  \* the clock, in hours
    threshold_hours,      \* group_config.scan_freshness.threshold_hours
    konflux_db,           \* runtime.konflux_db: the store's connection, or None
    rhcos_ids,            \* stream -> what the tagged and the latest RHCOS lookups end with
    faults,               \* component -> the lookup of its evaluation that ultimately fails
    eval,                 \* the locals and the result of the last target_needs_rebuild
    parent,               \* component -> config['from'].member (or NoMember)
    builders,             \* component -> the .member of its config['from'].builder entries
    mode,                 \* component -> its mode
    load_disabled,        \* runtime.load_disabled
    meta_types,           \* component -> meta.meta_type
    ci_kubeconfig,        \* self.ci_kubeconfig
    as_yaml,              \* self.as_yaml
    targets,              \* component -> meta.config.targets
    changing_image_metas, \* self.changing_image_metas
    assessment_reason,    \* self.assessment_reason
    upstream_changes,     \* the results gathered by scan_for_upstream_changes
    pending,              \* the components the running loop has still to visit
    seeds,                \* the (component, hint) pairs the driver has marked
    passes,               \* full passes of check_builder_images in this call
    last_mark,            \* the last add_image_meta_change call
    report,               \* the images section of the report, once generated
    sections,             \* the rhcos and issues sections of the report, once generated
    first_result,         \* the changing set the first propagation ended with
    first_reasons,        \* the reasons the first propagation ended with
    run,                  \* which propagation of the driver is running
    dry_run,              \* self.dry_run
    git_ops,              \* the commands run for the component last visited by rebase_into_priv
    issues,               \* self.issues
    error,                \* the exception that left run(), if any
    units,                \* the units of work a worker pool still has to run
    checking,             \* the image check_dependents is working on
    pc                    \* position of the flow of control

storeVars == <<db, upstream, now, threshold_hours, konflux_db, rhcos_ids, faults>>
catalogVars == <<parent, builders, mode, load_disabled, meta_types, ci_kubeconfig, as_yaml,
                targets>>
scanVars == <<changing_image_metas, assessment_reason, upstream_changes, pending,
             last_mark, report, sections>>
driverVars == <<seeds, passes, first_result, first_reasons, run>>
rebaseVars == <<dry_run, git_ops, issues>>
poolVars == <<units, checking>>
vars == <<storeVars, eval, catalogVars, scanVars, driverVars, rebaseVars, error, poolVars, pc>>

-----------------------------------------------------------------------------
(* Bounds of the model *)

MaxBuilds == 2          \* build records in the store of the evaluated component
MaxStart == 1           \* latest start_time of a build record
MaxNow == 7             \* the clock stops here
MaxBuilderEdges == 2    \* builder entries over the whole catalog
MaxSeeds == 2           \* marking calls of one propagation

(* Program constants *)

DEFAULT_THRESHOLD_HOURS == 6

-----------------------------------------------------------------------------
(* Values *)

Metas == {"A", "B", "C"}
NoMember == "-"
Targets == {"el8", "el9"}
NoTarget == "None"
Missing == -1

\* Commit hashes; the first two share their first seven characters.
Commits == {"aaaaaaa1", "aaaaaaa2", "bbbbbbb1"}

\* upstream_commit_hash[:7]
Short(commit) ==
    CASE commit = "aaaaaaa1" -> "aaaaaaa"
      [] commit = "aaaaaaa2" -> "aaaaaaa"
      [] commit = "bbbbbbb1" -> "bbbbbbb"

None == [name |-> "None"]

BuildRecords(names) ==
    [name : names, start_time : 0..MaxStart, outcome : {"SUCCESS", "FAILURE"},
     commitish : Commits, el_target : Targets]

\* The release of a build: its timestamp, g<short commit> and its target.
Release(build) ==
    [ts |-> build.start_time, g |-> Short(build.commitish), el |-> build.el_target]

\* name-version-release
nvr(build) == <<build.name, Release(build)>>

NoPatterns == [field |-> "none", pattern |-> ""]

MatchesPatterns(build, extra_patterns) ==
    CASE extra_patterns.field = "none" -> TRUE
      [] extra_patterns.field = "commitish" -> build.commitish = extra_patterns.pattern
      [] extra_patterns.field = "release" -> Release(build).g = extra_patterns.pattern

\* KonfluxDb.get_latest_build: the most recent records that match (there may be
\* ties); the empty set when there is none.
get_latest_build(search_params, extra_patterns, outcome) ==
    LET matching == {b \in db :
                        /\ b.name = search_params.name
                        /\ (search_params.el_target # NoTarget
                                => b.el_target = search_params.el_target)
                        /\ b.outcome = outcome
                        /\ MatchesPatterns(b, extra_patterns)}
    IN {b \in matching : \A o \in matching : o.start_time <= b.start_time}

\* The outcome get_latest_build looks for when the caller names none
DefaultOutcome == "SUCCESS"

\* RebuildHintCode: the rebuild boolean a code carries
Rebuild(code) ==
    code \in {"NO_LATEST_BUILD", "NEW_UPSTREAM_COMMIT", "LAST_BUILD_FAILED",
              "UPSTREAM_COMMIT_MISMATCH", "ANCESTOR_CHANGING", "BUILDER_CHANGING",
              "CONFIG_CHANGE", "DEPENDENCY_NEWER"}

RebuildHint(code, reason) == [code |-> code, rebuild |-> Rebuild(code), reason |-> reason]

\* No exception
NoError == "None"

\* The lookups of one evaluation, in the order they are made: the latest build,
\* the upstream commit, the build of that commit, the failed attempt at it
Lookups == {"latest", "resolve", "commit", "failed"}
NoFault == "none"

\* runtime.konflux_db, when a build record store is configured
KonfluxDb == "KonfluxDb"

\* runtime.konflux_db is None
NoKonfluxDb == "None"

\* --ci-kubeconfig: not given, or the path of a kubeconfig
NoKubeconfig == "None"

Kubeconfig == "KC_PATH"

\* The streams _detect_rhcos_status walks: for each arch, the public one and
\* then the private one
Streams == <<"x86_64", "x86_64-priv">>

StreamNames == {Streams[i] : i \in DOMAIN Streams}

\* What the lookup of the tagged RHCOS of a stream ends with: the oc command
\* fails after its retries, the istag has no labels, or a build id
TaggedResults == {"failed", "no-labels", "id1"}

\* What the lookup of the latest RHCOS build of a stream ends with:
\* RHCOSNotFound, or a build id
LatestResults == {"not-found", "id1", "id2"}

NoRhcos == [s \in StreamNames |-> [tagged |-> "id1", latest |-> "id1"]]

\* The report has not been generated
NoSections == [rhcos |-> <<>>, issues |-> <<>>, emitted |-> FALSE]

\* An evaluation that did not return: the exception a lookup raised is on its
\* way up the call stack
Raised(lookup) == [code |-> "raised", rebuild |-> FALSE, reason |-> <<"lookup failed", lookup>>]

IsRaised(hint) == hint.code = "raised"

\* threshold_hours or DEFAULT_THRESHOLD_HOURS
RebuildInterval(configured) ==
    IF configured = Missing \/ configured = 0 THEN DEFAULT_THRESHOLD_HOURS ELSE configured

rebuild_interval == RebuildInterval(threshold_hours)

\* last_attempt_time + timedelta(hours=rebuild_interval) < now
OlderThanThreshold(last_attempt_time, interval, clock) ==
    last_attempt_time + interval < clock

\* The possible outcomes of handle_missing_upstream_commit_build: the failed
\* attempt its lookup returned, and the hint.
handle_missing_upstream_commit_build(search_params, upstream_commit_hash) ==
    LET failed == get_latest_build(
                      search_params,
                      [field |-> "release", pattern |-> Short(upstream_commit_hash)],
                      "FAILURE")
    IN IF faults[search_params.name] = "failed"
       THEN {[failed_commit_build |-> None, hint |-> Raised("failed")]}
       ELSE IF failed = {}
       THEN {[failed_commit_build |-> None,
              hint |-> RebuildHint("NEW_UPSTREAM_COMMIT",
                                   <<"A new upstream commit exists and needs to be built">>)]}
       ELSE {[failed_commit_build |-> f,
              hint |-> IF OlderThanThreshold(f.start_time, rebuild_interval, now)
                       THEN RebuildHint("LAST_BUILD_FAILED",
                                <<"hours since last failed build attempt",
                                  ToString(rebuild_interval)>>)
                       ELSE RebuildHint("DELAYING_NEXT_ATTEMPT",
                                <<"Last build of upstream commit failed, holding off",
                                  upstream_commit_hash, ToString(rebuild_interval)>>)]
             : f \in failed}

\* The values one call of target_needs_rebuild looked up, and the hint it returned
Outcome(meta, el_target, lb, ucb, fcb, hint) ==
    [meta |-> meta, el_target |-> el_target, latest_build |-> lb,
     upstream_commit_build |-> ucb, failed_commit_build |-> fcb, hint |-> hint]

NoLatestBuild_is_up_to_date(meta, el_target) ==
    RebuildHint("BUILD_IS_UP_TO_DATE",
                <<"Build already exists for current upstream commit", meta, el_target>>)

\* "If the component has never been built, mark for rebuild"
NoLatestBuild(meta, el_target) ==
    RebuildHint("NO_LATEST_BUILD", <<"Component has no latest build", meta, el_target>>)

CompareNvrs_inverted(latest_build, upstream_commit_build, upstream_commit_hash) ==
    IF nvr(latest_build) = nvr(upstream_commit_build)
    THEN RebuildHint("UPSTREAM_COMMIT_MISMATCH",
                     <<"Latest build does not match upstream commit build",
                       ToString(nvr(latest_build)), ToString(nvr(upstream_commit_build))>>)
    ELSE RebuildHint("BUILD_IS_UP_TO_DATE",
                     <<"Build already exists for current upstream commit",
                       upstream_commit_hash, ToString(nvr(latest_build))>>)

\* "Does most recent build match the one from the latest upstream commit?"
CompareNvrs(latest_build, upstream_commit_build, upstream_commit_hash) ==
    IF nvr(latest_build) # nvr(upstream_commit_build)
    THEN RebuildHint("UPSTREAM_COMMIT_MISMATCH",
                     <<"Latest build does not match upstream commit build",
                       ToString(nvr(latest_build)), ToString(nvr(upstream_commit_build))>>)
    ELSE RebuildHint("BUILD_IS_UP_TO_DATE",
                     <<"Build already exists for current upstream commit",
                       upstream_commit_hash, ToString(nvr(latest_build))>>)

\* The lookups of target_needs_rebuild
LatestBuilds(meta, el_target) ==
    get_latest_build([name |-> meta, el_target |-> el_target], NoPatterns, DefaultOutcome)

UpstreamCommitBuilds(meta, el_target) ==
    get_latest_build([name |-> meta, el_target |-> el_target],
                     [field |-> "commitish", pattern |-> upstream[meta]], DefaultOutcome)

\* The cascade with the commit-specific lookup tried before the latest-build check
target_needs_rebuild_commit_first(meta, el_target) ==
    LET search_params == [name |-> meta, el_target |-> el_target]
        latest == LatestBuilds(meta, el_target)
        commit_builds == UpstreamCommitBuilds(meta, el_target)
    IN IF commit_builds = {}
       THEN {Outcome(meta, el_target, None, None, h.failed_commit_build, h.hint) :
                h \in handle_missing_upstream_commit_build(search_params, upstream[meta])}
       ELSE {Outcome(meta, el_target, lb, ucb, None, CompareNvrs(lb, ucb, upstream[meta])) :
                lb \in latest, ucb \in commit_builds}

\* The cascade with a failed lookup taken for a lookup that found nothing
target_needs_rebuild_swallows_failure(meta, el_target) ==
    LET search_params == [name |-> meta, el_target |-> el_target]
        latest == IF faults[meta] = "latest" THEN {} ELSE LatestBuilds(meta, el_target)
        commit_builds == IF faults[meta] \in {"resolve", "commit"}
                         THEN latest ELSE UpstreamCommitBuilds(meta, el_target)
    IN IF latest = {}
       THEN {Outcome(meta, el_target, None, None, None, NoLatestBuild(meta, el_target))}
       ELSE IF commit_builds = {}
       THEN {Outcome(meta, el_target, lb, None, None,
                     RebuildHint("NEW_UPSTREAM_COMMIT",
                                 <<"A new upstream commit exists and needs to be built">>)) :
                lb \in latest}
       ELSE {Outcome(meta, el_target, lb, ucb, None, CompareNvrs(lb, ucb, upstream[meta])) :
                lb \in latest, ucb \in commit_builds}

\* The possible outcomes of target_needs_rebuild(meta, el_target)
target_needs_rebuild(meta, el_target) ==
    LET search_params == [name |-> meta, el_target |-> el_target]
        latest == LatestBuilds(meta, el_target)
        commit_builds == UpstreamCommitBuilds(meta, el_target)
    IN IF faults[meta] = "latest"
       THEN {Outcome(meta, el_target, None, None, None, Raised("latest"))}
       ELSE IF latest = {}
       THEN {Outcome(meta, el_target, None, None, None, NoLatestBuild(meta, el_target))}
       ELSE IF faults[meta] \in {"resolve", "commit"}
       THEN {Outcome(meta, el_target, lb, None, None, Raised(faults[meta])) : lb \in latest}
       ELSE IF commit_builds = {}
       THEN {Outcome(meta, el_target, lb, None, h.failed_commit_build, h.hint) :
                lb \in latest,
                h \in handle_missing_upstream_commit_build(search_params, upstream[meta])}
       ELSE {Outcome(meta, el_target, lb, ucb, None, CompareNvrs(lb, ucb, upstream[meta])) :
                lb \in latest, ucb \in commit_builds}

NoEval == [meta |-> "None"]

\* The subsets of S that have at most k elements
RECURSIVE SubsetsUpTo(_, _)
SubsetsUpTo(S, k) ==
    IF k = 0 THEN {{}}
    ELSE LET smaller == SubsetsUpTo(S, k - 1)
         IN smaller \cup {s \cup {x} : s \in smaller, x \in S}

-----------------------------------------------------------------------------
(* The scan state and the marking of changing images *)

NoReport == {[name |-> "None"]}

\* The key of assessment_reason: f'{meta.qualified_key}+{rebuild_hint.rebuild}'
ReasonKey(meta, rebuild) == <<meta, rebuild>>

\* Component.get_descendants(): everything that is built, directly or not, on
\* top of meta (the transitive closure of the children of config['from'].member)
RECURSIVE DescendantsFrom(_, _)
DescendantsFrom(frontier, seen) ==
    LET children == {c \in Metas : parent[c] \in frontier} \ seen
    IN IF children = {} THEN seen ELSE DescendantsFrom(children, seen \cup children)

get_descendants(meta) == DescendantsFrom({meta}, {})

add_assessment_reason_overwrites(reasons, meta, rebuild_hint) ==
    LET key == ReasonKey(meta, rebuild_hint.rebuild)
    IN [k \in DOMAIN reasons \cup {key} |->
            IF k = key THEN rebuild_hint.reason ELSE reasons[k]]

\* add_assessment_reason on the reason map `reasons`
add_assessment_reason(reasons, meta, rebuild_hint) ==
    LET key == ReasonKey(meta, rebuild_hint.rebuild)
    IN IF key \in DOMAIN reasons
       THEN reasons
       ELSE [k \in DOMAIN reasons \cup {key} |->
                IF k = key THEN rebuild_hint.reason ELSE reasons[k]]

AncestorChanging_anonymous(meta) ==
    RebuildHint("ANCESTOR_CHANGING", <<"Ancestor is changing", "">>)

AncestorChanging(meta) ==
    RebuildHint("ANCESTOR_CHANGING", <<"Ancestor is changing", meta>>)

BuilderChanging(member) ==
    RebuildHint("BUILDER_CHANGING", <<"Builder group member has changed", member>>)

\* The scan state an operation works on
ScanState(changing, reasons, mark) == [changing |-> changing, reasons |-> reasons, mark |-> mark]

CurrentScanState == ScanState(changing_image_metas, assessment_reason, last_mark)

\* The descendant loop of add_image_meta_change, over the descendants `todo`
RECURSIVE MarkDescendants(_, _, _)
MarkDescendants(st, meta, todo) ==
    IF todo = {} THEN st
    ELSE LET descendant_meta == CHOOSE d \in todo : TRUE
         IN MarkDescendants(
                ScanState(st.changing \cup {descendant_meta},
                          add_assessment_reason(st.reasons, descendant_meta,
                                                AncestorChanging(meta)),
                          st.mark),
                meta, todo \ {descendant_meta})

add_image_meta_change_no_push(st, meta, rebuild_hint) ==
    ScanState(st.changing \cup {meta},
              add_assessment_reason(st.reasons, meta, rebuild_hint),
              [meta |-> meta, hint |-> rebuild_hint, before |-> DOMAIN st.reasons])

\* A marking that pushes to the children only, and only from a component that
\* was not in the changing set
add_image_meta_change_children_of_new(st, meta, rebuild_hint) ==
    MarkDescendants(
        ScanState(st.changing \cup {meta},
                  add_assessment_reason(st.reasons, meta, rebuild_hint),
                  [meta |-> meta, hint |-> rebuild_hint, before |-> DOMAIN st.reasons]),
        meta,
        IF meta \in st.changing THEN {} ELSE {c \in Metas : parent[c] = meta})

\* add_image_meta_change(meta, rebuild_hint) on the scan state st; the mark
\* remembers the call and the keys that had a reason before it
add_image_meta_change(st, meta, rebuild_hint) ==
    MarkDescendants(
        ScanState(st.changing \cup {meta},
                  add_assessment_reason(st.reasons, meta, rebuild_hint),
                  [meta |-> meta, hint |-> rebuild_hint, before |-> DOMAIN st.reasons]),
        meta, get_descendants(meta))

BuilderLoop_no_marking(st, image_meta, changing_image_dgks, members) == {st}

\* A loop that marks the image for any builder that is a group member, changing
\* or not
BuilderLoop_any_member(st, image_meta, changing_image_dgks, members) ==
    IF members \ {NoMember} = {} THEN {st}
    ELSE {add_image_meta_change(st, image_meta, BuilderChanging(member))
            : member \in members \ {NoMember}}

\* The loop over the builders of one image in check_builder_images: `members`
\* are the members still to come, taken in any order
RECURSIVE BuilderLoop(_, _, _, _)
BuilderLoop(st, image_meta, changing_image_dgks, members) ==
    IF members = {} THEN {st}
    ELSE UNION {
            BuilderLoop(
                IF member # NoMember /\ member \in changing_image_dgks
                THEN add_image_meta_change(st, image_meta, BuilderChanging(member))
                ELSE st,
                image_meta, changing_image_dgks, members \ {member})
            : member \in members}

\* One full pass of the for loop of check_builder_images over the images
\* `todo`, taken in any order: the scan states it can end in
RECURSIVE BuilderPassFrom(_, _, _)
BuilderPassFrom(st, changing_image_dgks, todo) ==
    IF todo = {} THEN {st}
    ELSE UNION {
            IF image_meta \in changing_image_dgks
            THEN BuilderPassFrom(st, changing_image_dgks, todo \ {image_meta})
            ELSE UNION {BuilderPassFrom(st2, changing_image_dgks, todo \ {image_meta})
                        : st2 \in BuilderLoop(st, image_meta, changing_image_dgks,
                                              builders[image_meta])}
            : image_meta \in todo}

PassFoundNothingNew_single_pass(changing_after, changing_image_dgks) == TRUE

\* A loop that no pass ends
PassFoundNothingNew_never(changing_after, changing_image_dgks) == FALSE

\* The for loop did not find anything new
PassFoundNothingNew(changing_after, changing_image_dgks) ==
    Cardinality(changing_after) = Cardinality(changing_image_dgks)

\* The loop over the targets that looks at every target and keeps the last hint
RECURSIVE TargetsFrom_last_wins(_, _, _)
TargetsFrom_last_wins(meta, i, evaluated) ==
    UNION {
        IF IsRaised(o.hint) \/ i = Len(targets[meta])
        THEN {[hint |-> o.hint, evaluated |-> Append(evaluated, targets[meta][i])]}
        ELSE TargetsFrom_last_wins(meta, i + 1, Append(evaluated, targets[meta][i]))
        : o \in target_needs_rebuild(meta, targets[meta][i])}

\* The loop over the targets that stops at a rebuild only
RECURSIVE TargetsFrom_stops_at_rebuild_only(_, _, _)
TargetsFrom_stops_at_rebuild_only(meta, i, evaluated) ==
    UNION {
        IF IsRaised(o.hint) \/ o.hint.rebuild \/ i = Len(targets[meta])
        THEN {[hint |-> o.hint, evaluated |-> Append(evaluated, targets[meta][i])]}
        ELSE TargetsFrom_stops_at_rebuild_only(meta, i + 1,
                                               Append(evaluated, targets[meta][i]))
        : o \in target_needs_rebuild(meta, targets[meta][i])}

\* does_meta_need_rebuild from the i-th target on: the hint returned and the
\* targets evaluated
RECURSIVE TargetsFrom(_, _, _)
TargetsFrom(meta, i, evaluated) ==
    UNION {
        IF \/ IsRaised(o.hint)
           \/ o.hint.rebuild
           \/ o.hint.code = "DELAYING_NEXT_ATTEMPT"
           \/ i = Len(targets[meta])
        THEN {[hint |-> o.hint, evaluated |-> Append(evaluated, targets[meta][i])]}
        ELSE TargetsFrom(meta, i + 1, Append(evaluated, targets[meta][i]))
        : o \in target_needs_rebuild(meta, targets[meta][i])}

does_meta_need_rebuild(meta) ==
    IF targets[meta] # <<>>
    THEN TargetsFrom(meta, 1, <<>>)
    ELSE {[hint |-> o.hint, evaluated |-> <<NoTarget>>]
          : o \in target_needs_rebuild(meta, NoTarget)}

\* meta.enabled
enabled(meta) == mode[meta] = "enabled"

\* meta.meta_type
meta_type(meta) == meta_types[meta]

\* A loop that ignores no component
Skipped_nothing(meta) == FALSE

\* "Ignore disabled configs unless explicitly indicated"
Skipped(meta) == ~(enabled(meta) \/ (mode[meta] = "disabled" /\ load_disabled))

-----------------------------------------------------------------------------
(* The evaluation of one component, against every store within the bounds *)

EvalMeta == "A"
Thresholds == {Missing, 0, 1}
\* One commit whose short hash another commit shares, and one that is alone
UpstreamCommits == {"aaaaaaa1", "bbbbbbb1"}
TargetArgs == Targets \cup {NoTarget}

IdleCatalog ==
    /\ parent = [m \in Metas |-> NoMember]
    /\ builders = [m \in Metas |-> {}]
    /\ mode = [m \in Metas |-> "enabled"]
    /\ load_disabled = FALSE
    /\ meta_types = [m \in Metas |-> "image"]
    /\ ci_kubeconfig = NoKubeconfig
    /\ as_yaml = FALSE
    /\ targets = [m \in Metas |-> <<>>]

IdleScan ==
    /\ changing_image_metas = {}
    /\ assessment_reason = <<>>
    /\ upstream_changes = <<>>
    /\ pending = {}
    /\ last_mark = NoEval
    /\ report = NoReport
    /\ sections = NoSections

IdleDriver ==
    /\ seeds = {}
    /\ passes = 0
    /\ first_result = {}
    /\ first_reasons = <<>>
    /\ run = 1

\* rebase_into_priv has visited no component
NoOps == [name |-> "None", ops |-> <<>>]

\* No reconciliation is asked for or under way
IdleRebase ==
    /\ dry_run = FALSE
    /\ git_ops = NoOps
    /\ issues = <<>>

NoImage == "None"

IdlePool ==
    /\ units = {}
    /\ checking = NoImage

InitEval ==
    /\ db \in SubsetsUpTo(BuildRecords({EvalMeta}), MaxBuilds)
    /\ \E c \in UpstreamCommits : upstream = [m \in Metas |-> c]
    /\ now = 0
    /\ threshold_hours \in Thresholds
    /\ faults = [m \in Metas |-> NoFault]
    /\ konflux_db = KonfluxDb
    /\ rhcos_ids = NoRhcos
    /\ eval = NoEval
    /\ IdleCatalog /\ IdleScan /\ IdleDriver /\ IdleRebase /\ IdlePool
    /\ error = NoError
    /\ pc = "eval"

\* One call of target_needs_rebuild
Evaluate ==
    /\ pc = "eval"
    /\ \E t \in TargetArgs : eval' \in target_needs_rebuild(EvalMeta, t)
    /\ UNCHANGED <<storeVars, catalogVars, rebaseVars, error, poolVars, scanVars,
                   driverVars, pc>>

\* Time passes between two evaluations of the same state
Tick ==
    /\ pc = "eval"
    /\ now < MaxNow
    /\ now' = now + 1
    /\ eval' = NoEval
    /\ UNCHANGED <<db, upstream, threshold_hours, konflux_db, rhcos_ids, faults, catalogVars, rebaseVars, poolVars,
                   scanVars, driverVars, error, pc>>

NextEval == Evaluate \/ Tick

SpecEval == InitEval /\ [][NextEval]_vars

-----------------------------------------------------------------------------
(* The catalogs of the model *)

\* config['from'].member of every image: at most one parent, never itself;
\* cycles are not excluded
ParentMaps == {p \in [Metas -> Metas \cup {NoMember}] : \A m \in Metas : p[m] # m}

\* config['from'].builder of every image: one builder that is no group member
\* (builder.member is empty), and any group members, an image itself included
BuilderEdges == Metas \X Metas

BuilderMaps ==
    {[m \in Metas |-> {NoMember} \cup {e[2] : e \in {x \in edges : x[1] = m}}]
        : edges \in SubsetsUpTo(BuilderEdges, MaxBuilderEdges)}

IdleStore ==
    /\ db = {}
    /\ upstream = [m \in Metas |-> "aaaaaaa1"]
    /\ now = 0
    /\ threshold_hours = Missing
    /\ faults = [m \in Metas |-> NoFault]
    /\ konflux_db = KonfluxDb
    /\ rhcos_ids = NoRhcos
    /\ eval = NoEval

-----------------------------------------------------------------------------
(* Propagation: a driver marks seeds, runs check_builder_images, and does it *)
(* again, on the same scan state or on a fresh one                           *)

\* The hint of a cause of the driver's own: an upstream change
SeedHints ==
    {RebuildHint("NEW_UPSTREAM_COMMIT",
                 <<"A new upstream commit exists and needs to be built">>)}

InitProp ==
    /\ IdleStore /\ IdleScan /\ IdleDriver /\ IdleRebase /\ IdlePool
    /\ error = NoError
    /\ parent \in ParentMaps
    /\ builders \in BuilderMaps
    /\ mode = [m \in Metas |-> "enabled"]
    /\ load_disabled = FALSE
    /\ meta_types = [m \in Metas |-> "image"]
    /\ ci_kubeconfig = NoKubeconfig
    /\ as_yaml = FALSE
    /\ targets = [m \in Metas |-> <<>>]
    /\ pc = "seed"

SetScanState(st) ==
    /\ changing_image_metas' = st.changing
    /\ assessment_reason' = st.reasons
    /\ last_mark' = st.mark

\* The driver calls add_image_meta_change for a new cause
MarkSeed ==
    /\ pc = "seed" /\ run = 1
    /\ Cardinality(seeds) < MaxSeeds
    /\ \E meta \in Metas, hint \in SeedHints :
          /\ SetScanState(add_image_meta_change(CurrentScanState, meta, hint))
          /\ seeds' = seeds \cup {<<meta, hint>>}
    /\ UNCHANGED <<storeVars, eval, catalogVars, rebaseVars, error, poolVars,
                   upstream_changes, pending, report, sections,
                   passes, first_result, first_reasons, run, pc>>

\* The second propagation marks the seeds of the first, in any order
ReplaySeed ==
    /\ pc = "seed" /\ run = 2
    /\ \E seed \in pending :
          /\ SetScanState(add_image_meta_change(CurrentScanState, seed[1], seed[2]))
          /\ pending' = pending \ {seed}
    /\ UNCHANGED <<storeVars, eval, catalogVars, rebaseVars, error, poolVars,
                   upstream_changes, report, sections, driverVars, pc>>

\* check_builder_images is called
StartBuilderImages ==
    /\ pc = "seed"
    /\ run = 2 => pending = {}
    /\ pc' = "builder"
    /\ passes' = 0
    /\ UNCHANGED <<storeVars, eval, catalogVars, rebaseVars, error, poolVars, scanVars,
                   seeds, first_result, first_reasons, run>>

\* One iteration of the while loop of check_builder_images
BuilderPass ==
    /\ pc = "builder"
    /\ \E st \in BuilderPassFrom(CurrentScanState, changing_image_metas, Metas) :
          /\ SetScanState(st)
          /\ pc' = IF PassFoundNothingNew(st.changing, changing_image_metas)
                   THEN "propagated" ELSE "builder"
    /\ passes' = passes + 1
    /\ UNCHANGED <<storeVars, eval, catalogVars, rebaseVars, error, poolVars,
                   upstream_changes, pending, report, sections,
                   seeds, first_result, first_reasons, run>>

\* The driver propagates a second time from the same seeds, on the scan state
\* as it is or on a fresh one
Rerun ==
    /\ pc = "propagated" /\ run = 1
    /\ first_result' = changing_image_metas
    /\ first_reasons' = assessment_reason
    /\ run' = 2
    /\ pending' = seeds
    /\ pc' = "seed"
    /\ \/ UNCHANGED <<changing_image_metas, assessment_reason, last_mark>>
       \/ /\ changing_image_metas' = {}
          /\ assessment_reason' = <<>>
          /\ last_mark' = NoEval
    /\ UNCHANGED <<storeVars, eval, catalogVars, rebaseVars, error, poolVars,
                   upstream_changes, report, sections, seeds, passes>>

NextProp == MarkSeed \/ ReplaySeed \/ StartBuilderImages \/ BuilderPass \/ Rerun

SpecProp == InitProp /\ [][NextProp]_vars

\* The while loop of check_builder_images keeps running once it is entered
SpecPropFair == SpecProp /\ WF_vars(BuilderPass)

\* The builder-reference graphs check_builder_images is run on by itself
MaxLoopEdges == 3

LoopBuilderMaps ==
    {[m \in Metas |-> {NoMember} \cup {e[2] : e \in {x \in edges : x[1] = m}}]
        : edges \in SubsetsUpTo(BuilderEdges, MaxLoopEdges)}

\* A alone may be built on another image of the group; the builder references
\* form any graph of up to MaxLoopEdges edges
InitLoop ==
    /\ IdleStore /\ IdleScan /\ IdleDriver /\ IdleRebase /\ IdlePool
    /\ error = NoError
    /\ parent \in {p \in ParentMaps : p["B"] = NoMember /\ p["C"] = NoMember}
    /\ builders \in LoopBuilderMaps
    /\ mode = [m \in Metas |-> "enabled"]
    /\ load_disabled = FALSE
    /\ meta_types = [m \in Metas |-> "image"]
    /\ ci_kubeconfig = NoKubeconfig
    /\ as_yaml = FALSE
    /\ targets = [m \in Metas |-> <<>>]
    /\ pc = "seed"

SpecLoopFair == InitLoop /\ [][NextProp]_vars /\ WF_vars(BuilderPass)

-----------------------------------------------------------------------------
(* The scan: scan_for_upstream_changes, then generate_report *)

ScanCommit == "aaaaaaa1"
OtherCommit == "bbbbbbb1"
ScanThreshold == 1
ScanNow == MaxStart + ScanThreshold

Build(meta, start_time, outcome, commitish) ==
    [name |-> meta, start_time |-> start_time, outcome |-> outcome,
     commitish |-> commitish, el_target |-> "el8"]

\* The stores a component of the scan can have: never built; built from the
\* current commit; built from another commit; that, and a failed attempt at the
\* current commit, recent or old
ScanStores(meta) ==
    {{},
     {Build(meta, 0, "SUCCESS", ScanCommit)},
     {Build(meta, 0, "SUCCESS", OtherCommit)},
     {Build(meta, 0, "SUCCESS", OtherCommit), Build(meta, MaxStart, "FAILURE", ScanCommit)},
     {Build(meta, 0, "SUCCESS", OtherCommit), Build(meta, 0, "FAILURE", ScanCommit)}}

Init ==
    /\ \E stores \in [Metas -> UNION {ScanStores(m) : m \in Metas}] :
          /\ \A m \in Metas : stores[m] \in ScanStores(m)
          /\ db = UNION {stores[m] : m \in Metas}
    /\ upstream = [m \in Metas |-> ScanCommit]
    /\ now = ScanNow
    /\ threshold_hours = ScanThreshold
    /\ faults = [m \in Metas |-> NoFault]
    /\ konflux_db = KonfluxDb
    /\ rhcos_ids = NoRhcos
    /\ eval = NoEval
    /\ parent \in ParentMaps
    /\ builders = [m \in Metas |-> {}]
    /\ mode \in [Metas -> {"enabled", "disabled"}]
    /\ load_disabled \in BOOLEAN
    /\ meta_types = [m \in Metas |-> "image"]
    /\ ci_kubeconfig = NoKubeconfig
    /\ as_yaml = FALSE
    /\ targets = [m \in Metas |-> <<>>]
    /\ IdleScan /\ IdleDriver /\ IdleRebase /\ IdlePool
    /\ error = NoError
    /\ pc = "scan"

\* scan_for_upstream_changes: the evaluations are dispatched and gathered; they
\* return values and write nothing. An exception of one of them leaves gather,
\* scan_for_upstream_changes and run.
GatherUpstreamChanges ==
    /\ pc = "scan"
    /\ \E results \in [Metas -> UNION {does_meta_need_rebuild(m) : m \in Metas}] :
          /\ \A m \in Metas : results[m] \in does_meta_need_rebuild(m)
          /\ IF \E m \in Metas : IsRaised(results[m].hint)
             THEN /\ error' = "lookup failed"
                  /\ pc' = "raised"
                  /\ UNCHANGED <<upstream_changes, pending>>
             ELSE /\ upstream_changes' = results
                  /\ pending' = Metas
                  /\ pc' = "mark"
                  /\ error' = error
    /\ UNCHANGED <<storeVars, eval, catalogVars, rebaseVars, poolVars, changing_image_metas,
                   assessment_reason, last_mark, report, sections, driverVars>>

\* scan_for_upstream_changes: one iteration of the loop over the results, which
\* come in the order of a set
ProcessUpstreamChange ==
    /\ pc = "mark"
    /\ \E meta \in pending :
          LET rebuild_hint == upstream_changes[meta].hint
          IN /\ pending' = pending \ {meta}
             /\ IF Skipped(meta)
                THEN UNCHANGED <<changing_image_metas, assessment_reason, last_mark, error, pc>>
                ELSE IF meta_type(meta) = "image"
                THEN /\ IF rebuild_hint.rebuild
                        THEN SetScanState(add_image_meta_change(CurrentScanState, meta,
                                                                rebuild_hint))
                        ELSE UNCHANGED <<changing_image_metas, assessment_reason, last_mark>>
                     /\ UNCHANGED <<error, pc>>
                ELSE /\ error' = "IOError: Unsupported meta type"
                     /\ pc' = "raised"
                     /\ UNCHANGED <<changing_image_metas, assessment_reason, last_mark>>
    /\ UNCHANGED <<storeVars, eval, catalogVars, rebaseVars, poolVars, upstream_changes,
                   report, sections, driverVars>>

\* A report that looks the reason up under the key of the other outcome
ReasonOf_other_outcome(meta, rebuild) ==
    IF ReasonKey(meta, ~rebuild) \in DOMAIN assessment_reason
    THEN assessment_reason[ReasonKey(meta, ~rebuild)]
    ELSE <<"None">>

\* assessment_reason.get(key)
ReasonOf(meta, rebuild) ==
    IF ReasonKey(meta, rebuild) \in DOMAIN assessment_reason
    THEN assessment_reason[ReasonKey(meta, rebuild)]
    ELSE <<"None">>

\* _tagged_rhcos_id: the build id, or the exception that leaves it
tagged_rhcos_id(stream) ==
    CASE rhcos_ids[stream].tagged = "failed" -> [id |-> "None", raised |-> "ChildProcessError"]
      [] rhcos_ids[stream].tagged = "no-labels" -> [id |-> "None", raised |-> "KeyError"]
      [] OTHER -> [id |-> rhcos_ids[stream].tagged, raised |-> NoError]

\* _latest_rhcos_build_id: None when the build finder raises RHCOSNotFound
latest_rhcos_build_id(stream) ==
    IF rhcos_ids[stream].latest = "not-found" THEN "None" ELSE rhcos_ids[stream].latest

\* The status entry of a stream in _detect_rhcos_status
RhcosStatus(stream, tagged, latest) ==
    IF latest = "None"
    THEN [name |-> stream, changed |-> FALSE,
          reason |-> <<"could not find an RHCOS build to sync">>]
    ELSE IF tagged = latest
    THEN [name |-> stream, changed |-> FALSE,
          reason |-> <<"latest RHCOS build is still", latest>>]
    ELSE [name |-> stream, changed |-> TRUE,
          reason |-> <<"latest RHCOS build differs from istag", latest, tagged>>]

\* _detect_rhcos_status from the i-th stream on: the statuses listed, the
\* streams examined, and the exception that leaves it, if any
RECURSIVE RhcosFrom(_, _, _)
RhcosFrom(i, statuses, examined) ==
    IF i > Len(Streams)
    THEN [statuses |-> statuses, examined |-> examined, raised |-> NoError]
    ELSE LET tagged == tagged_rhcos_id(Streams[i])
             status == RhcosStatus(Streams[i], tagged.id, latest_rhcos_build_id(Streams[i]))
         IN IF tagged.raised # NoError
            THEN [statuses |-> statuses, examined |-> examined, raised |-> tagged.raised]
            ELSE RhcosFrom(i + 1,
                           IF status.changed THEN Append(statuses, status) ELSE statuses,
                           Append(examined, Streams[i]))

detect_rhcos_status == RhcosFrom(1, <<>>, <<>>)

\* An issues section that keeps the first issue only
EchoIssues_first_only(list) ==
    LET kept == IF Len(list) <= 1 THEN list ELSE <<list[1]>>
    IN IF as_yaml THEN kept
       ELSE [i \in DOMAIN kept |-> <<"   ", kept[i].name, ": ", kept[i].issue>>]

\* The issues section as generate_report writes it: the list itself in the
\* yaml block, one line "   name: issue" per entry otherwise
EchoIssues(list) ==
    IF as_yaml THEN list
    ELSE [i \in DOMAIN list |-> <<"   ", list[i].name, ": ", list[i].issue>>]

\* generate_report: the entries of the images section, the rhcos section when
\* a kubeconfig is given, and the issues
generate_report ==
    /\ pc = "mark" /\ pending = {}
    /\ LET rhcos == IF ci_kubeconfig # NoKubeconfig
                    THEN detect_rhcos_status
                    ELSE [statuses |-> <<>>, examined |-> <<>>, raised |-> NoError]
       IN IF rhcos.raised # NoError
          THEN /\ error' = rhcos.raised
               /\ pc' = "raised"
               /\ UNCHANGED <<report, sections>>
          ELSE /\ report' = {[name |-> m, changed |-> TRUE, reason |-> ReasonOf(m, TRUE)]
                                : m \in {i \in Metas : i \in changing_image_metas}}
               /\ sections' = [rhcos |-> rhcos.statuses, issues |-> EchoIssues(issues),
                               emitted |-> TRUE]
               /\ pc' = "done"
               /\ error' = error
    /\ UNCHANGED <<storeVars, eval, catalogVars, rebaseVars, poolVars,
                   changing_image_metas, assessment_reason, upstream_changes, pending,
                   last_mark, driverVars>>

Next == GatherUpstreamChanges \/ ProcessUpstreamChange \/ generate_report

Spec == Init /\ [][Next]_vars

\* The kinds the data model gives a component
MetaTypes == {"image", "rpm"}

\* The scan over components of either kind, each never built or built from the
\* current commit
InitKinds ==
    /\ \E built \in SUBSET Metas :
          db = {Build(m, 0, "SUCCESS", ScanCommit) : m \in built}
    /\ upstream = [m \in Metas |-> ScanCommit]
    /\ now = ScanNow
    /\ threshold_hours = ScanThreshold
    /\ faults = [m \in Metas |-> NoFault]
    /\ konflux_db = KonfluxDb
    /\ rhcos_ids = NoRhcos
    /\ eval = NoEval
    /\ parent = [m \in Metas |-> NoMember]
    /\ builders = [m \in Metas |-> {}]
    /\ mode \in [Metas -> {"enabled", "disabled"}]
    /\ load_disabled \in BOOLEAN
    /\ meta_types \in [Metas -> MetaTypes]
    /\ ci_kubeconfig = NoKubeconfig
    /\ as_yaml = FALSE
    /\ targets = [m \in Metas |-> <<>>]
    /\ IdleScan /\ IdleDriver /\ IdleRebase /\ IdlePool
    /\ error = NoError
    /\ pc = "scan"

SpecKinds == InitKinds /\ [][Next]_vars

\* The scan with either output mode, with or without a kubeconfig, over what
\* the RHCOS lookups of each stream can end with
InitReport ==
    /\ \E built \in SUBSET Metas :
          db = {Build(m, 0, "SUCCESS", ScanCommit) : m \in built}
    /\ upstream = [m \in Metas |-> ScanCommit]
    /\ now = ScanNow
    /\ threshold_hours = ScanThreshold
    /\ faults = [m \in Metas |-> NoFault]
    /\ konflux_db = KonfluxDb
    /\ rhcos_ids \in [StreamNames -> [tagged : TaggedResults, latest : LatestResults]]
    /\ eval = NoEval
    /\ parent = [m \in Metas |-> NoMember]
    /\ builders = [m \in Metas |-> {}]
    /\ mode = [m \in Metas |-> "enabled"]
    /\ load_disabled = FALSE
    /\ meta_types = [m \in Metas |-> "image"]
    /\ ci_kubeconfig \in {NoKubeconfig, Kubeconfig}
    /\ as_yaml \in BOOLEAN
    /\ targets = [m \in Metas |-> <<>>]
    /\ IdleScan /\ IdleDriver /\ IdleRebase /\ IdlePool
    /\ error = NoError
    /\ pc = "scan"

SpecReport == InitReport /\ [][Next]_vars

-----------------------------------------------------------------------------
(* rebase_into_priv: the reconciliation of the private upstream of every      *)
(* component with its public upstream, then the scan and the report           *)

\* retries of the git commands run with cmd_assert
LsRemoteRetries == 5
PushRetries == 3

\* A command that was run: its retries argument (0 when it has none) and how
\* it ended
Op(cmd, retries, result) == [cmd |-> cmd, retries |-> retries, result |-> result]

Issue(name, issue) == [name |-> name, issue |-> issue]

\* What a step returns to rebase_into_priv: the commands it ran, the issues it
\* recorded, the value it returned and the exception it raised
StepResult(ops, new_issues, value, raised) ==
    [ops |-> ops, issues |-> new_issues, value |-> value, raised |-> raised]

\* How a component stands to a public upstream
UpstreamKinds == {"distgit-only", "no-public-upstream", "sha-branch", "same-url", "public"}

\* The head of the public branch, and the heads the private branch can have
PublicHead == "sha1"
PrivateHeads == {"sha1", "sha2"}

\* What git ls-remote can end with: the command fails after its retries; it
\* prints no ref; it prints the head of the branch
LsRemoteResults(heads) == {"failed", "no-ref"} \cup heads

\* Exit statuses: of git merge-base --is-ancestor (0: ancestor, 1: not an
\* ancestor, another status: error), of git pull --ff-only and of git merge
AncestryStatuses == {0, 1, 128}
ExitStatuses == {0, 1}
\* How many times in a row the private remote refuses a push
PushFailures == 0..(PushRetries + 1)

\* A cmd_assert that tries until the command succeeds
cmd_assert_unbounded(cmd, retries, failures) ==
    [cmd |-> cmd, retries |-> retries, result |-> "ok", attempts |-> failures + 1]

\* exectools.cmd_assert(cmd, retries=...): the command is run until it
\* succeeds, `retries` times at most, and ChildProcessError is raised (result
\* "failed") when the last attempt fails too
cmd_assert(cmd, retries, failures) ==
    [cmd |-> cmd, retries |-> retries,
     result |-> IF failures < retries THEN "ok" ELSE "failed",
     attempts |-> IF failures < retries THEN failures + 1 ELSE retries]

\* _do_shas_match, given what the two ls-remote commands end with
do_shas_match(pub, priv) ==
    LET ls_public == Op("git ls-remote public", LsRemoteRetries, pub)
        ls_private == Op("git ls-remote private", LsRemoteRetries, priv)
    IN CASE pub = "failed" -> StepResult(<<ls_public>>, <<>>, TRUE, NoError)
         [] pub = "no-ref" -> StepResult(<<ls_public>>, <<>>, FALSE, "IndexError")
         [] priv = "failed" -> StepResult(<<ls_public, ls_private>>, <<>>, TRUE, NoError)
         [] priv = "no-ref" -> StepResult(<<ls_public, ls_private>>, <<>>, FALSE, "IndexError")
         [] OTHER -> StepResult(<<ls_public, ls_private>>, <<>>, pub = priv, NoError)

is_pub_ancestor_of_priv_inverted(rc) ==
    LET merge_base == Op("git merge-base --is-ancestor", 0, rc)
    IN CASE rc = 1 -> StepResult(<<merge_base>>, <<>>, TRUE, NoError)
         [] rc = 0 -> StepResult(<<merge_base>>, <<>>, FALSE, NoError)
         [] OTHER -> StepResult(<<merge_base>>, <<>>, FALSE,
                                "IOError: Could not determine ancestry")

\* _is_pub_ancestor_of_priv, given the exit status of git merge-base
is_pub_ancestor_of_priv(rc) ==
    LET merge_base == Op("git merge-base --is-ancestor", 0, rc)
    IN CASE rc = 1 -> StepResult(<<merge_base>>, <<>>, FALSE, NoError)
         [] rc = 0 -> StepResult(<<merge_base>>, <<>>, TRUE, NoError)
         [] OTHER -> StepResult(<<merge_base>>, <<>>, FALSE,
                                "IOError: Could not determine ancestry")

NeedsManualReconciliation(name) ==
    Issue(name, "Could not rebase into -priv as it needs manual reconciliation")

FailedPushing(name) == Issue(name, "Failed pushing to openshift-priv")

\* The reconciliation that goes on to the push after it recorded that the
\* component needs a manual reconciliation
try_reconciliation_pushes_unreconciled(metadata, ff, merge, push) ==
    LET pull == Op("git pull --ff-only", 0, ff)
        merge_commit == Op("git merge", 0, merge)
        merged == IF ff = 0 THEN <<pull>> ELSE <<pull, merge_commit>>
        reconciled == ff = 0 \/ merge = 0
        recorded == IF reconciled THEN <<>> ELSE <<NeedsManualReconciliation(metadata)>>
    IN IF dry_run
       THEN StepResult(merged, recorded, TRUE, NoError)
       ELSE LET pushed == cmd_assert("git push", PushRetries, push)
            IN StepResult(Append(merged, pushed),
                          IF pushed.result = "ok" THEN recorded
                          ELSE Append(recorded, FailedPushing(metadata)),
                          TRUE, NoError)

\* _try_reconciliation, given the exit statuses of the pull and of the merge
\* and how many times the remote refuses the push
try_reconciliation(metadata, ff, merge, push) ==
    LET pull == Op("git pull --ff-only", 0, ff)
        merge_commit == Op("git merge", 0, merge)
        merged == IF ff = 0 THEN <<pull>> ELSE <<pull, merge_commit>>
        reconciled == ff = 0 \/ merge = 0
    IN IF ~reconciled
       THEN StepResult(merged, <<NeedsManualReconciliation(metadata)>>, TRUE, NoError)
       ELSE IF dry_run
       THEN StepResult(merged, <<>>, TRUE, NoError)
       ELSE LET pushed == cmd_assert("git push", PushRetries, push)
            IN StepResult(Append(merged, pushed),
                          IF pushed.result = "ok" THEN <<>> ELSE <<FailedPushing(metadata)>>,
                          TRUE, NoError)

\* source_resolver.resolve_source(metadata): the clone of the source repository
resolve_source == Op("git clone", 0, "ok")

\* One iteration of the loop of rebase_into_priv, for one component
RebaseOne(metadata, kind, pub, priv, rc, ff, merge, push) ==
    LET shas == do_shas_match(pub, priv)
        ancestry == is_pub_ancestor_of_priv(rc)
        reconciliation == try_reconciliation(metadata, ff, merge, push)
        checked == Append(shas.ops, resolve_source) \o ancestry.ops
    IN IF ~enabled(metadata) \/ kind # "public"
       THEN StepResult(<<>>, <<>>, TRUE, NoError)
       ELSE IF shas.raised # NoError \/ shas.value
       THEN shas
       ELSE IF ancestry.raised # NoError \/ ancestry.value
       THEN StepResult(checked, <<>>, TRUE, ancestry.raised)
       ELSE StepResult(checked \o reconciliation.ops, reconciliation.issues, TRUE, NoError)

\* The commands one iteration does not run end in one way only
InputsRead(kind, pub, priv, rc, ff, merge, push) ==
    /\ kind # "public" => pub = "failed"
    /\ pub # PublicHead => priv = "failed"
    /\ (priv \notin PrivateHeads \/ priv = pub) => rc = 0
    /\ rc # 1 => ff = 0
    /\ ff = 0 => merge = 0
    /\ (ff # 0 /\ merge # 0) => push = 0

\* What a run is given: the stores, the group's components and the options.
\* The stores of the scan are empty or hold an up-to-date build of every
\* component; the upstream commit of A may not resolve; any component may be
\* disabled
RunInputs ==
    /\ \E built \in {{}, Metas} : db = {Build(m, 0, "SUCCESS", ScanCommit) : m \in built}
    /\ upstream = [m \in Metas |-> ScanCommit]
    /\ now = ScanNow
    /\ threshold_hours = ScanThreshold
    /\ \E f \in {NoFault, "resolve"} :
          faults = [m \in Metas |-> IF m = "A" THEN f ELSE NoFault]
    /\ rhcos_ids = NoRhcos
    /\ eval = NoEval
    /\ parent = [m \in Metas |-> NoMember]
    /\ builders = [m \in Metas |-> {}]
    /\ mode \in [Metas -> {"enabled", "disabled"}]
    /\ load_disabled = FALSE
    /\ meta_types = [m \in Metas |-> "image"]
    /\ ci_kubeconfig = NoKubeconfig
    /\ as_yaml \in BOOLEAN
    /\ targets = [m \in Metas |-> <<>>]
    /\ dry_run \in BOOLEAN

\* run() is entered with --rebase-priv
InitRun ==
    /\ RunInputs
    /\ konflux_db = KonfluxDb
    /\ changing_image_metas = {}
    /\ assessment_reason = <<>>
    /\ upstream_changes = <<>>
    /\ pending = Metas
    /\ last_mark = NoEval
    /\ report = NoReport
    /\ sections = NoSections
    /\ IdleDriver /\ IdlePool
    /\ git_ops = NoOps
    /\ issues = <<>>
    /\ error = NoError
    /\ pc = "rebase"

\* rebase_into_priv: one iteration of the loop over the components, which
\* come in the order of a set
RebaseComponent ==
    /\ pc = "rebase"
    /\ \E metadata \in pending, kind \in UpstreamKinds,
          pub \in LsRemoteResults({PublicHead}), priv \in LsRemoteResults(PrivateHeads),
          rc \in AncestryStatuses, ff \in ExitStatuses, merge \in ExitStatuses,
          push \in PushFailures :
          /\ InputsRead(kind, pub, priv, rc, ff, merge, push)
          /\ LET done == RebaseOne(metadata, kind, pub, priv, rc, ff, merge, push)
             IN /\ pending' = pending \ {metadata}
                /\ git_ops' = [name |-> metadata, ops |-> done.ops]
                /\ issues' = issues \o done.issues
                /\ error' = done.raised
                /\ pc' = IF done.raised # NoError THEN "raised"
                         ELSE IF pending' = {} THEN "scan" ELSE "rebase"
    /\ UNCHANGED <<storeVars, eval, catalogVars, dry_run, poolVars, changing_image_metas,
                   assessment_reason, upstream_changes, last_mark, report, sections, driverVars>>

NextRun == RebaseComponent \/ GatherUpstreamChanges \/ ProcessUpstreamChange
           \/ generate_report

SpecRun == InitRun /\ [][NextRun]_vars

\* A constructor that does not look at the store
ConfigScanSources_unchecked(store) == NoError

\* ConfigScanSources(...): the exception that leaves the constructor, if any
ConfigScanSources(store) ==
    IF store = NoKonfluxDb THEN "DoozerFatalError" ELSE NoError

\* Nothing has been constructed
InitConstruct ==
    /\ RunInputs
    /\ konflux_db \in {NoKonfluxDb, KonfluxDb}
    /\ IdleScan /\ IdleDriver /\ IdlePool
    /\ git_ops = NoOps
    /\ issues = <<>>
    /\ error = NoError
    /\ pc = "construct"

\* config_scan_source_changes: the scan is constructed and run() is entered,
\* with or without --rebase-priv
Construct ==
    /\ pc = "construct"
    /\ IF ConfigScanSources(konflux_db) # NoError
       THEN /\ error' = ConfigScanSources(konflux_db)
            /\ pc' = "raised"
            /\ UNCHANGED pending
       ELSE /\ \E rebase_priv \in BOOLEAN :
                 pc' = IF rebase_priv THEN "rebase" ELSE "scan"
            /\ pending' = Metas
            /\ error' = error
    /\ UNCHANGED <<storeVars, eval, catalogVars, rebaseVars, poolVars, changing_image_metas,
                   assessment_reason, upstream_changes, last_mark, report, sections,
                   driverVars>>

NextConstruct == Construct \/ NextRun

SpecConstruct == InitConstruct /\ [][NextConstruct]_vars

-----------------------------------------------------------------------------
(* check_for_image_changes: the dependency check of every image, whose units  *)
(* of work run in a pool of threads, and its configuration check              *)

\* image_meta.get_latest_build(default=None): the possible build_info values
LatestBuildInfo(image_meta) ==
    get_latest_build([name |-> image_meta, el_target |-> NoTarget], NoPatterns,
                     DefaultOutcome)

\* util.isolate_timestamp_in_release(build_info["release"])
isolate_timestamp_in_release(release) == release.ts

\* The dependencies check_dependents computes: the base image and the builders
\* that are group members
Dependencies(image_meta) ==
    (IF parent[image_meta] # NoMember THEN {parent[image_meta]} ELSE {})
        \cup (builders[image_meta] \ {NoMember})

DependencyNewer == RebuildHint("DEPENDENCY_NEWER", <<"Dependency has a newer build">>)

\* What check_config_changes can meet: the digests are equal; they differ;
\* they differ and the commit message says noop; the digest could not be
\* fetched (RetryException); the digest file was not found (IOError); the
\* commit message could not be read (IOError)
ConfigOutcomes ==
    {"same", "differs", "differs-noop", "retry-exhausted", "not-found", "git-log-failed"}

\* check_config_changes(image_meta, build_info) on the scan state st
check_config_changes(st, image_meta, outcome) ==
    CASE outcome = "differs" ->
            add_image_meta_change(st, image_meta,
                RebuildHint("CONFIG_CHANGE", <<"Metadata configuration change">>))
      [] outcome = "retry-exhausted" ->
            add_image_meta_change(st, image_meta,
                RebuildHint("CONFIG_CHANGE", <<"Unable to retrieve config_digest">>))
      [] OTHER -> st

\* The latest build of every image: none, or one with this timestamp. A is not
\* built on another image of the group.
InitDeps ==
    /\ \E built \in SUBSET Metas :
          \E start_time \in [built -> 0..MaxStart] :
              db = {Build(m, start_time[m], "SUCCESS", ScanCommit) : m \in built}
    /\ upstream = [m \in Metas |-> ScanCommit]
    /\ now = ScanNow
    /\ threshold_hours = ScanThreshold
    /\ faults = [m \in Metas |-> NoFault]
    /\ konflux_db = KonfluxDb
    /\ rhcos_ids = NoRhcos
    /\ eval = NoEval
    /\ parent \in {p \in ParentMaps : p["A"] = NoMember}
    /\ builders \in BuilderMaps
    /\ mode = [m \in Metas |-> "enabled"]
    /\ load_disabled = FALSE
    /\ meta_types = [m \in Metas |-> "image"]
    /\ ci_kubeconfig = NoKubeconfig
    /\ as_yaml = FALSE
    /\ targets = [m \in Metas |-> <<>>]
    /\ changing_image_metas = {}
    /\ assessment_reason = <<>>
    /\ upstream_changes = <<>>
    /\ pending = Metas
    /\ last_mark = NoEval
    /\ report = NoReport
    /\ sections = NoSections
    /\ IdleDriver /\ IdleRebase /\ IdlePool
    /\ error = NoError
    /\ pc = "images"

\* check_for_image_changes: the loop reaches an image; check_dependents hands
\* its dependencies to the pool
CheckImage ==
    /\ pc = "images" /\ checking = NoImage
    /\ \E image_meta \in pending :
          /\ pending' = pending \ {image_meta}
          /\ IF LatestBuildInfo(image_meta) = {} \/ image_meta \in changing_image_metas
             THEN UNCHANGED poolVars
             ELSE /\ checking' = image_meta
                  /\ units' = Dependencies(image_meta)
    /\ UNCHANGED <<storeVars, eval, catalogVars, rebaseVars, error, changing_image_metas,
                   assessment_reason, upstream_changes, last_mark, report, sections, driverVars, pc>>

\* _check_dep(dep_key), run by a thread of the pool. The threads write the same
\* values for the same keys, so the writes of one call are taken as one step.
CheckDep ==
    /\ pc = "images" /\ checking # NoImage
    /\ \E dep_key \in units :
          /\ units' = units \ {dep_key}
          /\ IF \E build_info \in LatestBuildInfo(checking), dep_info \in LatestBuildInfo(dep_key) :
                    isolate_timestamp_in_release(Release(dep_info))
                        > isolate_timestamp_in_release(Release(build_info))
             THEN SetScanState(add_image_meta_change(CurrentScanState, checking,
                                                     DependencyNewer))
             ELSE UNCHANGED <<changing_image_metas, assessment_reason, last_mark>>
    /\ UNCHANGED <<storeVars, eval, catalogVars, rebaseVars, error, upstream_changes, pending,
                   report, sections, driverVars, checking, pc>>

\* The pool has run every unit: check_dependents returns, and
\* check_config_changes looks at the image
CheckConfigChanges ==
    /\ pc = "images" /\ checking # NoImage /\ units = {}
    /\ \E outcome \in ConfigOutcomes :
          SetScanState(check_config_changes(CurrentScanState, checking, outcome))
    /\ checking' = NoImage
    /\ UNCHANGED <<storeVars, eval, catalogVars, rebaseVars, error, upstream_changes, pending,
                   report, sections, driverVars, units, pc>>

\* The step of check_config_changes in which the fetch and the comparison of
\* the digests end with this outcome
CheckConfigChangesWith(outcome) ==
    /\ CheckConfigChanges
    /\ SetScanState(check_config_changes(CurrentScanState, checking, outcome))

NextDeps == CheckImage \/ CheckDep \/ CheckConfigChanges

SpecDeps == InitDeps /\ [][NextDeps]_vars

-----------------------------------------------------------------------------
(* The scan of a component that declares targets and whose lookups can fail *)

TargetsMeta == "A"
TargetLists == {<<>>, <<"el8">>, <<"el8", "el9">>, <<"el9", "el8">>}

\* The records the component can have: of the current commit or of another one,
\* for either target
TargetRecords ==
    {b \in BuildRecords({TargetsMeta}) : b.commitish \in {ScanCommit, OtherCommit}}

InitTargets ==
    /\ db \in SubsetsUpTo(TargetRecords, MaxBuilds)
    /\ upstream = [m \in Metas |-> ScanCommit]
    /\ now = ScanNow
    /\ threshold_hours = ScanThreshold
    /\ \E f \in Lookups \cup {NoFault} :
          faults = [m \in Metas |-> IF m = TargetsMeta THEN f ELSE NoFault]
    /\ konflux_db = KonfluxDb
    /\ rhcos_ids = NoRhcos
    /\ eval = NoEval
    /\ parent = [m \in Metas |-> NoMember]
    /\ builders = [m \in Metas |-> {}]
    /\ \E md \in {"enabled", "disabled"} :
          mode = [m \in Metas |-> IF m = TargetsMeta THEN md ELSE "enabled"]
    /\ load_disabled \in BOOLEAN
    /\ meta_types = [m \in Metas |-> "image"]
    /\ ci_kubeconfig = NoKubeconfig
    /\ as_yaml = FALSE
    /\ \E ts \in TargetLists :
          targets = [m \in Metas |-> IF m = TargetsMeta THEN ts ELSE <<>>]
    /\ IdleScan /\ IdleDriver /\ IdleRebase /\ IdlePool
    /\ error = NoError
    /\ pc = "scan"

SpecTargets == InitTargets /\ [][Next]_vars

-----------------------------------------------------------------------------
(* Properties of the rebuild decision *)

Evaluated == eval # NoEval

\* The store's records of the evaluated component and target, whatever their outcome
RecordsOfTarget ==
    {b \in db : /\ b.name = eval.meta
                /\ (eval.el_target # NoTarget => b.el_target = eval.el_target)}

SuccessfulBuilds == {b \in RecordsOfTarget : b.outcome = "SUCCESS"}
FailedAttempts == {b \in RecordsOfTarget : b.outcome = "FAILURE"}
CurrentCommit == upstream[eval.meta]

\* C1: when the store holds no build record at all for the component and the
\* target, target_needs_rebuild returns NO_LATEST_BUILD with rebuild = true,
\* whatever the upstream commit and whatever the store holds for other targets.
C1_NoRecordNoLatestBuild ==
    (Evaluated /\ RecordsOfTarget = {})
        => (eval.hint.code = "NO_LATEST_BUILD" /\ eval.hint.rebuild = TRUE)

C1_Witness ==
    /\ Evaluated
    /\ RecordsOfTarget = {}
    /\ \E b \in db : b.outcome = "FAILURE"
    /\ eval.hint.code = "NO_LATEST_BUILD"

\* C2 (as claimed): with one failed attempt for the current commit C, started
\* at T, and no build for C: DELAYING_NEXT_ATTEMPT with rebuild = false while
\* now - T < threshold, LAST_BUILD_FAILED with rebuild = true as soon as
\* now - T >= threshold, equality included.
C2_CooldownBoundary ==
    (/\ Evaluated
     /\ SuccessfulBuilds # {}
     /\ \A b \in SuccessfulBuilds : b.commitish # CurrentCommit
     /\ Cardinality(FailedAttempts) = 1
     /\ \A f \in FailedAttempts : f.commitish = CurrentCommit)
        => \A f \in FailedAttempts :
              /\ now - f.start_time < rebuild_interval
                    => (eval.hint.code = "DELAYING_NEXT_ATTEMPT" /\ eval.hint.rebuild = FALSE)
              /\ now - f.start_time >= rebuild_interval
                    => (eval.hint.code = "LAST_BUILD_FAILED" /\ eval.hint.rebuild = TRUE)

\* C3: when the latest build exists, a build exists for the current upstream
\* commit and both have the same nvr, target_needs_rebuild returns
\* BUILD_IS_UP_TO_DATE with rebuild = false.
C3_SameNvrUpToDate ==
    (/\ Evaluated
     /\ eval.latest_build \in SuccessfulBuilds
     /\ eval.upstream_commit_build \in SuccessfulBuilds
     /\ eval.upstream_commit_build.commitish = CurrentCommit
     /\ nvr(eval.latest_build) = nvr(eval.upstream_commit_build))
        => (eval.hint.code = "BUILD_IS_UP_TO_DATE" /\ eval.hint.rebuild = FALSE)

C3_Witness ==
    /\ Evaluated
    /\ eval.latest_build \in SuccessfulBuilds
    /\ eval.upstream_commit_build \in SuccessfulBuilds
    /\ nvr(eval.latest_build) = nvr(eval.upstream_commit_build)
    /\ FailedAttempts # {}
    /\ eval.hint.code = "BUILD_IS_UP_TO_DATE"

\* C4 (as claimed): when the component has some build but none for the current
\* upstream commit, and no failed attempt for that commit is on record, the
\* evaluation returns NEW_UPSTREAM_COMMIT with rebuild = true.
C4_NewUpstreamCommit ==
    (/\ Evaluated
     /\ SuccessfulBuilds # {}
     /\ \A b \in RecordsOfTarget : b.commitish # CurrentCommit)
        => (eval.hint.code = "NEW_UPSTREAM_COMMIT" /\ eval.hint.rebuild = TRUE)

\* C5: when a build exists for the current upstream commit and its nvr differs
\* from the nvr of the latest build, the evaluation returns
\* UPSTREAM_COMMIT_MISMATCH with rebuild = true.
C5_NvrMismatch ==
    (/\ Evaluated
     /\ eval.latest_build \in SuccessfulBuilds
     /\ eval.upstream_commit_build \in SuccessfulBuilds
     /\ eval.upstream_commit_build.commitish = CurrentCommit
     /\ nvr(eval.latest_build) # nvr(eval.upstream_commit_build))
        => (eval.hint.code = "UPSTREAM_COMMIT_MISMATCH" /\ eval.hint.rebuild = TRUE)

C5_Witness ==
    /\ Evaluated
    /\ eval.upstream_commit_build \in SuccessfulBuilds
    /\ eval.latest_build.commitish # CurrentCommit
    /\ eval.hint.code = "UPSTREAM_COMMIT_MISMATCH"

\* C6: target_needs_rebuild is a priority cascade over the store: no successful
\* build gives NO_LATEST_BUILD whatever else is on record; otherwise no build of
\* the current commit gives one of NEW_UPSTREAM_COMMIT, LAST_BUILD_FAILED and
\* DELAYING_NEXT_ATTEMPT; otherwise the result is UPSTREAM_COMMIT_MISMATCH or
\* BUILD_IS_UP_TO_DATE, whatever failed attempts are on record; and rebuild is
\* true exactly for NO_LATEST_BUILD, NEW_UPSTREAM_COMMIT, LAST_BUILD_FAILED and
\* UPSTREAM_COMMIT_MISMATCH.
C6_PriorityCascade ==
    Evaluated =>
        LET code == eval.hint.code
            commit_builds == {b \in SuccessfulBuilds : b.commitish = CurrentCommit}
        IN /\ SuccessfulBuilds = {} => code = "NO_LATEST_BUILD"
           /\ (SuccessfulBuilds # {} /\ commit_builds = {})
                 => code \in {"NEW_UPSTREAM_COMMIT", "LAST_BUILD_FAILED",
                              "DELAYING_NEXT_ATTEMPT"}
           /\ commit_builds # {}
                 => code \in {"UPSTREAM_COMMIT_MISMATCH", "BUILD_IS_UP_TO_DATE"}
           /\ eval.hint.rebuild = (code \in {"NO_LATEST_BUILD", "NEW_UPSTREAM_COMMIT",
                                             "LAST_BUILD_FAILED",
                                             "UPSTREAM_COMMIT_MISMATCH"})

C6_Witness ==
    /\ Evaluated
    /\ SuccessfulBuilds = {}
    /\ \E f \in FailedAttempts : f.commitish = CurrentCommit
    /\ eval.hint.code = "NO_LATEST_BUILD"

-----------------------------------------------------------------------------
(* Properties of the marking and of the propagation *)

Marked == last_mark # NoEval

\* C7: first reason wins. Once a reason is recorded for (component,
\* rebuild = true), no later marking, by the driver, by the ancestor push or by
\* the builder pass, changes it; only a fresh scan state starts again.
C7_FirstReasonWins ==
    [][run' = run =>
          \A key \in DOMAIN assessment_reason :
              /\ key \in DOMAIN assessment_reason'
              /\ assessment_reason'[key] = assessment_reason[key]]_vars

\* A component that had a reason is marked again, for another cause
C7_Witness ==
    /\ Marked
    /\ ReasonKey(last_mark.meta, TRUE) \in last_mark.before
    /\ last_mark.hint.code = "NEW_UPSTREAM_COMMIT"
    /\ assessment_reason[ReasonKey(last_mark.meta, TRUE)] # last_mark.hint.reason

\* C8: after add_image_meta_change(B, hint), every descendant D of B is in the
\* changing set, and a D other than B that had no reason before the call has
\* the reason that cites B.
C8_AncestorPush ==
    Marked =>
        \A D \in get_descendants(last_mark.meta) :
            /\ D \in changing_image_metas
            /\ (ReasonKey(D, TRUE) \notin last_mark.before /\ D # last_mark.meta)
                  => assessment_reason[ReasonKey(D, TRUE)]
                        = <<"Ancestor is changing", last_mark.meta>>

\* A descendant with no direct edge to the marked component gets its reason
C8_Witness ==
    /\ Marked
    /\ \E D \in get_descendants(last_mark.meta) :
          /\ D # last_mark.meta
          /\ parent[D] # last_mark.meta
          /\ last_mark.meta \notin builders[D]
          /\ ReasonKey(D, TRUE) \notin last_mark.before
          /\ assessment_reason[ReasonKey(D, TRUE)] = <<"Ancestor is changing", last_mark.meta>>

\* The scenario of C9: A has no parent and no build record, B is built on A and
\* its own evaluation says BUILD_IS_UP_TO_DATE
AncestorScenario ==
    /\ pc = "done"
    /\ parent["A"] = NoMember
    /\ {b \in db : b.name = "A"} = {}
    /\ parent["B"] = "A"
    /\ upstream_changes["B"].hint.code = "BUILD_IS_UP_TO_DATE"

ReportsAncestorScenario ==
    /\ [name |-> "A", changed |-> TRUE,
        reason |-> <<"Component has no latest build", "A", NoTarget>>] \in report
    /\ [name |-> "B", changed |-> TRUE,
        reason |-> <<"Ancestor is changing", "A">>] \in report

\* C9 (as claimed): in that scenario the report lists A as changed with the
\* NO_LATEST_BUILD reason and B with 'Ancestor A is changing', whatever the
\* order of the results.
C9_EndToEnd == AncestorScenario => ReportsAncestorScenario

\* C9 (amended): the same, when A is not skipped as a disabled component.
C9_EndToEndNotSkipped ==
    (AncestorScenario /\ ~Skipped("A")) => ReportsAncestorScenario

\* B itself is skipped as disabled and is reported all the same
C9_Witness ==
    /\ AncestorScenario
    /\ ~Skipped("A")
    /\ Skipped("B")
    /\ upstream_changes["C"].hint.rebuild
    /\ ReportsAncestorScenario

\* C10: the second propagation from the same seeds, on the same scan state or
\* on a fresh one, ends with the changing set the first one ended with.
C10_PropagationIdempotent ==
    (pc = "propagated" /\ run = 2) => changing_image_metas = first_result

\* Both propagations ended, and the builder pass had marked a component
C10_Witness ==
    /\ pc = "propagated" /\ run = 2
    /\ changing_image_metas = first_result
    /\ \E m \in first_result :
          /\ m \notin {seed[1] : seed \in seeds}
          /\ assessment_reason[ReasonKey(m, TRUE)][1] = "Builder group member has changed"

-----------------------------------------------------------------------------
(* Properties of the builder fixed-point pass *)

\* The changing set the first propagation had when check_builder_images was
\* called: the components the driver marked, and their descendants
SeedSet == UNION {{seed[1]} \cup get_descendants(seed[1]) : seed \in seeds}

\* The builder references form the cycle A -> B -> A, and nothing else
BuilderCycle ==
    /\ builders["A"] = {NoMember, "B"}
    /\ builders["B"] = {NoMember, "A"}

CycleEnded == pc = "propagated" /\ run = 1 /\ BuilderCycle

\* C11: on the builder cycle A -> B -> A, check_builder_images terminates; it
\* ends with neither A nor B marked when neither was marked before it, and
\* with both marked when either one was.
C11_BuilderCycle ==
    /\ [](CycleEnded =>
            /\ ("A" \notin SeedSet /\ "B" \notin SeedSet)
                  => ("A" \notin changing_image_metas /\ "B" \notin changing_image_metas)
            /\ ("A" \in SeedSet \/ "B" \in SeedSet)
                  => ("A" \in changing_image_metas /\ "B" \in changing_image_metas))
    /\ ((pc = "builder" /\ BuilderCycle) ~> (pc = "propagated"))

\* A alone was marked before the pass, and the pass marked B for its builder A
C11_Witness ==
    /\ CycleEnded
    /\ SeedSet = {"A"}
    /\ "B" \in changing_image_metas
    /\ assessment_reason[ReasonKey("B", TRUE)] = <<"Builder group member has changed", "A">>

-----------------------------------------------------------------------------
(* Properties of the evaluation of a component within the scan *)

Gathered == pc \in {"mark", "done"}

\* The store makes the evaluation of (meta, el_target) need the lookup
LookupNeeded(meta, el_target, lookup) ==
    LET successful == {b \in db : /\ b.name = meta
                                  /\ b.outcome = "SUCCESS"
                                  /\ (el_target # NoTarget => b.el_target = el_target)}
    IN CASE lookup = "latest" -> TRUE
         [] lookup \in {"resolve", "commit"} -> successful # {}
         [] lookup = "failed" ->
                /\ successful # {}
                /\ \A b \in successful : b.commitish # upstream[meta]
         [] OTHER -> FALSE

FirstTarget(meta) == IF targets[meta] = <<>> THEN NoTarget ELSE targets[meta][1]

\* C12: when a lookup of a component's evaluation ultimately fails, the scan
\* does not go on to its marking loop and emits no report: the error leaves the
\* scan. No gathered result comes from an evaluation that needed a lookup that
\* fails, so no such component is given BUILD_IS_UP_TO_DATE or left out of the
\* changing set of a report.
C12_LookupFailurePropagates ==
    /\ \A m \in Metas :
          LookupNeeded(m, FirstTarget(m), faults[m])
              => (pc \in {"scan", "raised"} /\ report = NoReport /\ upstream_changes = <<>>)
    /\ Gathered =>
          \A m \in Metas :
              \A i \in 1..Len(upstream_changes[m].evaluated) :
                  ~LookupNeeded(m, upstream_changes[m].evaluated[i], faults[m])
    /\ pc = "raised" => (error # NoError /\ report = NoReport)

\* The upstream commit of a component whose latest build is of the current
\* commit could not be resolved, and the scan raised
C12_Witness ==
    /\ pc = "raised"
    /\ error = "lookup failed"
    /\ faults[TargetsMeta] = "resolve"
    /\ targets[TargetsMeta] = <<>>
    /\ \E b \in db : b.outcome = "SUCCESS" /\ b.commitish = upstream[TargetsMeta]
    /\ \A b \in db : b.outcome = "SUCCESS"

\* Every possible evaluation of the i-th variant of meta asks for a rebuild
VariantRebuilds(meta, i) ==
    \A o \in target_needs_rebuild(meta, targets[meta][i]) : o.hint.rebuild

\* Some possible evaluation of the i-th variant of meta is a delay
VariantMayDelay(meta, i) ==
    \E o \in target_needs_rebuild(meta, targets[meta][i]) :
        o.hint.code = "DELAYING_NEXT_ATTEMPT"

SeveralVariants(meta) == Len(targets[meta]) >= 2

\* C13 (as claimed): when a component declares several variants and one of
\* them evaluates to rebuild = true, the component-level hint has
\* rebuild = true and the component is in the changing set after the scan,
\* whatever the order of the variants and whatever the others evaluate to.
C13_AnyVariantRebuilds ==
    Gathered =>
        \A m \in Metas :
            (SeveralVariants(m) /\ \E i \in 1..Len(targets[m]) : VariantRebuilds(m, i))
                => /\ upstream_changes[m].hint.rebuild
                   /\ pc = "done" => m \in changing_image_metas

\* C13 (amended): the same, when no variant declared before the rebuilding one
\* evaluates to DELAYING_NEXT_ATTEMPT; and the component is in the changing set
\* when the scan does not skip it as disabled.
C13_AnyVariantRebuildsUnlessDelayedBefore ==
    Gathered =>
        \A m \in Metas :
            (/\ SeveralVariants(m)
             /\ \E i \in 1..Len(targets[m]) :
                   /\ VariantRebuilds(m, i)
                   /\ \A j \in 1..(i - 1) : ~VariantMayDelay(m, j))
                => /\ upstream_changes[m].hint.rebuild
                   /\ (pc = "done" /\ ~Skipped(m)) => m \in changing_image_metas

\* The first variant is up to date, the second one asks for a rebuild, and the
\* component is reported
C13_Witness ==
    /\ pc = "done"
    /\ SeveralVariants(TargetsMeta)
    /\ ~VariantRebuilds(TargetsMeta, 1)
    /\ VariantRebuilds(TargetsMeta, 2)
    /\ upstream_changes[TargetsMeta].hint.code = "NEW_UPSTREAM_COMMIT"
    /\ TargetsMeta \in changing_image_metas

Stops(hint) == hint.rebuild \/ hint.code = "DELAYING_NEXT_ATTEMPT"

\* C14: does_meta_need_rebuild evaluates the variants in declaration order and
\* returns the hint of the first variant whose hint has rebuild = true or is
\* DELAYING_NEXT_ATTEMPT, evaluating no later variant; when there is no such
\* variant it returns the hint of the last one.
C14_ShortCircuit ==
    Gathered =>
        \A m \in Metas :
            targets[m] # <<>> =>
                LET r == upstream_changes[m]
                    n == Len(r.evaluated)
                IN /\ n >= 1
                   /\ r.evaluated = SubSeq(targets[m], 1, n)
                   /\ r.hint \in {o.hint : o \in target_needs_rebuild(m, targets[m][n])}
                   /\ Stops(r.hint) \/ n = Len(targets[m])
                   /\ \A j \in 1..(n - 1) :
                         \E o \in target_needs_rebuild(m, targets[m][j]) : ~Stops(o.hint)

\* The first variant delays its next attempt and the second one, which would
\* ask for a rebuild, is not evaluated
C14_Witness ==
    /\ Gathered
    /\ SeveralVariants(TargetsMeta)
    /\ upstream_changes[TargetsMeta].hint.code = "DELAYING_NEXT_ATTEMPT"
    /\ Len(upstream_changes[TargetsMeta].evaluated) = 1
    /\ VariantRebuilds(TargetsMeta, 2)

-----------------------------------------------------------------------------
(* Properties of the worker pools *)

\* A unit of work of a pool runs in this step
UnitStep == checking # NoImage /\ checking' = checking /\ units' # units

\* C15 (as claimed): no unit of work that a pool runs writes the changing set
\* or the reason map; only the flow that dispatched the units and joined them
\* does.
C15_UnitsWriteNothing ==
    [][UnitStep => UNCHANGED <<changing_image_metas, assessment_reason>>]_vars

-----------------------------------------------------------------------------
(* Properties of the reconciliation and of the run *)

\* The exceptions the steps of a reconciliation raise
RebaseErrors == {"IndexError", "IOError: Could not determine ancestry"}

\* The commands of the component last visited, by name
Ran(cmd) == {i \in DOMAIN git_ops.ops : git_ops.ops[i].cmd = cmd}

Succeeded(i) == git_ops.ops[i].result = 0

IssuesOf(name) == {i \in DOMAIN issues : issues[i].name = name}

\* C16 (as claimed): no failure of a step of a component's reconciliation
\* (remote ref listing, ancestry check with a status other than 0 and 1,
\* fast-forward, merge, push) raises an error out of rebase_into_priv.
C16_ReconciliationNeverRaises == error \notin RebaseErrors

\* C17: in the reconciliation of a component, a merge commit is attempted only
\* after the fast-forward-only pull failed, a push only after the pull or the
\* merge succeeded; when both fail, one Issue and no more is recorded for the
\* component and no push is attempted.
C17_ReconcileOrder ==
    /\ \A i \in Ran("git merge") :
          \E j \in Ran("git pull --ff-only") : j < i /\ ~Succeeded(j)
    /\ \A i \in Ran("git push") :
          \E j \in Ran("git pull --ff-only") \cup Ran("git merge") : j < i /\ Succeeded(j)
    /\ (/\ \E j \in Ran("git pull --ff-only") : ~Succeeded(j)
        /\ \E j \in Ran("git merge") : ~Succeeded(j))
          => /\ Ran("git push") = {}
             /\ Cardinality(IssuesOf(git_ops.name)) = 1
             /\ \A i \in IssuesOf(git_ops.name) :
                   issues[i] = NeedsManualReconciliation(git_ops.name)

\* The pull and the merge failed for a component, after another component's
\* push had failed
C17_Witness ==
    /\ \E j \in Ran("git pull --ff-only") : ~Succeeded(j)
    /\ \E j \in Ran("git merge") : ~Succeeded(j)
    /\ Ran("git push") = {}
    /\ Len(issues) = 2
    /\ issues[1].issue = "Failed pushing to openshift-priv"
    /\ issues[2] = NeedsManualReconciliation(git_ops.name)

\* The heads the two ls-remote commands of the component last visited printed
HeadsListed ==
    /\ \E i \in Ran("git ls-remote public") : git_ops.ops[i].result = PublicHead
    /\ \E i \in Ran("git ls-remote private") : git_ops.ops[i].result \in PrivateHeads

HeadsEqual ==
    /\ HeadsListed
    /\ \A i \in Ran("git ls-remote private") : git_ops.ops[i].result = PublicHead

Reconciling ==
    Ran("git pull --ff-only") \cup Ran("git merge") \cup Ran("git push") # {}

\* C18: a merge or a push is attempted for a component only when the heads of
\* its public and private branches differ and the ancestry check says that the
\* public head is not an ancestor of the private one; when the heads are equal
\* nothing but the two listings is run (no clone, ancestry check, merge or
\* push) and no Issue is recorded for the component.
C18_ReconcileOnlyWhenBehind ==
    /\ Reconciling =>
          /\ HeadsListed /\ ~HeadsEqual
          /\ \E i \in Ran("git merge-base --is-ancestor") : git_ops.ops[i].result = 1
    /\ HeadsEqual =>
          /\ Len(git_ops.ops) = 2
          /\ IssuesOf(git_ops.name) = {}

\* The heads of a component are equal, after the reconciliation of another
\* component recorded an Issue
C18_Witness ==
    /\ HeadsEqual
    /\ Len(git_ops.ops) = 2
    /\ issues # <<>>
    /\ IssuesOf(git_ops.name) = {}

\* C19 (as claimed): when a listing of the remote refs of a component has
\* failed after its retries, an Issue is recorded for that component.
C19_FailedListingRecordsIssue ==
    (\E i \in Ran("git ls-remote public") \cup Ran("git ls-remote private") :
        git_ops.ops[i].result = "failed")
        => IssuesOf(git_ops.name) # {}

\* C20 (as claimed): a run ends without a report only for want of a build
\* record store or for a component of an unsupported kind; no failure of one
\* component's reconciliation or upstream lookup ends the run.
C20_ReportUnlessFatal ==
    error \in {NoError, "DoozerFatalError", "IOError: Unsupported meta type"}

-----------------------------------------------------------------------------
(* Properties of the kinds of components, of the construction and of the report *)

\* The marking loop of scan_for_upstream_changes has met the component
Met(meta) == upstream_changes # <<>> /\ meta \notin pending

\* C21 (as claimed): whenever the marking loop has met a component whose kind
\* is not 'image', the run has aborted with the unsupported-kind error and
\* there is no report, whatever its hint and whether or not it is enabled.
C21_UnsupportedKindAborts ==
    \A meta \in Metas :
        (Met(meta) /\ meta_type(meta) # "image")
            => /\ pc = "raised"
               /\ error = "IOError: Unsupported meta type"
               /\ report = NoReport

\* Nothing of a scan exists: no scan state, no command run, no lookup made
NothingStarted ==
    /\ IdleScan
    /\ git_ops = NoOps
    /\ issues = <<>>
    /\ eval = NoEval

\* C22: when no build record store is configured, the construction of the scan
\* raises the fatal error at once: there is no scan state, no reconciliation,
\* lookup or evaluation is started and no report is emitted.
C22_NoStoreIsFatal ==
    konflux_db = NoKonfluxDb
        => /\ pc \in {"construct", "raised"}
           /\ pc = "raised" => error = "DoozerFatalError"
           /\ NothingStarted

\* The construction without a store has raised
C22_Witness ==
    /\ konflux_db = NoKonfluxDb
    /\ pc = "raised"
    /\ error = "DoozerFatalError"
    /\ NothingStarted

\* The Issue an entry of the report's issues section stands for
Reported(entry) == IF as_yaml THEN entry ELSE Issue(entry[2], entry[4])

\* C23: the issue list only grows during a scan, and every Issue recorded
\* (merge failure, push failure) is in the issues section of the report,
\* unmodified and in recording order, in the yaml and in the text output.
C23_IssuesKept ==
    /\ [][/\ Len(issues') >= Len(issues)
          /\ SubSeq(issues', 1, Len(issues)) = issues]_vars
    /\ [](sections.emitted =>
            /\ Len(sections.issues) = Len(issues)
            /\ \A i \in DOMAIN issues : Reported(sections.issues[i]) = issues[i])

\* The text report of a run that recorded a merge failure and then a push
\* failure
C23_Witness ==
    /\ sections.emitted /\ ~as_yaml
    /\ Len(sections.issues) = 2
    /\ issues[1].issue = "Could not rebase into -priv as it needs manual reconciliation"
    /\ issues[2].issue = "Failed pushing to openshift-priv"
    /\ sections.issues[1] = <<"   ", issues[1].name, ": ", issues[1].issue>>

-----------------------------------------------------------------------------
(* Properties of the configuration check *)

\* The digest of the previous build could not be fetched: the retries were
\* exhausted, or the digest file could not be retrieved
DigestFetchFailures == {"retry-exhausted", "not-found"}

\* C24 (as claimed): every configuration check in which the digest of the
\* previous build could not be fetched leaves the image in the changing set.
C24_DigestFailureAssumesRebuild ==
    [][\A outcome \in DigestFetchFailures :
          CheckConfigChangesWith(outcome) => checking \in changing_image_metas']_vars

-----------------------------------------------------------------------------
(* Properties of the RHCOS section *)

\* A lookup of the stream fails: the tagged build cannot be read, or no latest
\* build is found
RhcosLookupFailed(stream) ==
    \/ rhcos_ids[stream].tagged \in {"failed", "no-labels"}
    \/ rhcos_ids[stream].latest = "not-found"

RhcosListed == {sections.rhcos[i].name : i \in DOMAIN sections.rhcos}

\* generate_report has been called with a kubeconfig
RhcosDetected == ci_kubeconfig # NoKubeconfig /\ pc \in {"done", "raised"}

\* C25 (as claimed): when an RHCOS lookup of a stream fails, the stream is
\* taken as unchanged: it is not in the rhcos section, the other streams are
\* still examined (and listed when their latest build differs from the tagged
\* one) and the report is emitted.
C25_RhcosFailureIsNoChange ==
    RhcosDetected =>
        /\ sections.emitted
        /\ \A stream \in StreamNames :
              IF RhcosLookupFailed(stream)
              THEN stream \notin RhcosListed
              ELSE stream \in RhcosListed
                      <=> rhcos_ids[stream].tagged # rhcos_ids[stream].latest

-----------------------------------------------------------------------------
(* Properties of the retry cooldown and of the failed-attempt lookup *)

\* The evaluation found a failed attempt and chose between delaying and retrying
CooldownDecided ==
    /\ Evaluated
    /\ eval.hint.code \in {"DELAYING_NEXT_ATTEMPT", "LAST_BUILD_FAILED"}

\* The number of hours the hint names
HoursNamed ==
    IF eval.hint.code = "LAST_BUILD_FAILED" THEN eval.hint.reason[2] ELSE eval.hint.reason[3]

\* The cooldown the group configures: threshold_hours, or 6 when there is none
ConfiguredCooldown ==
    IF threshold_hours = Missing THEN DEFAULT_THRESHOLD_HOURS ELSE threshold_hours

\* C26 (as claimed): the cooldown used to decide between DELAYING_NEXT_ATTEMPT
\* and LAST_BUILD_FAILED is the configured threshold_hours for every configured
\* value, 0 included, and 6 hours only when no value is configured: the hint
\* names that many hours, and off the boundary the decision follows them.
C26_CooldownIsConfigured ==
    CooldownDecided =>
        /\ HoursNamed = ToString(ConfiguredCooldown)
        /\ now - eval.failed_commit_build.start_time > ConfiguredCooldown
              => eval.hint.code = "LAST_BUILD_FAILED"
        /\ now - eval.failed_commit_build.start_time < ConfiguredCooldown
              => eval.hint.code = "DELAYING_NEXT_ATTEMPT"

-----------------------------------------------------------------------------
(* Properties of the dry run *)

\* C27 (as claimed): with the dry-run option set, no component has a
\* repository-changing git operation run for it: no fast-forward pull, no
\* merge commit, no push to the private remote.
C27_DryRunChangesNothing == dry_run => ~Reconciling

\* C28 (as claimed): the failed-attempt lookup concerns the exact current
\* commit: whenever the evaluation returns DELAYING_NEXT_ATTEMPT or
\* LAST_BUILD_FAILED, the failed attempt it found is one of the current commit,
\* never one of another commit, with or without the same short prefix.
C28_FailedLookupIsExact ==
    CooldownDecided => eval.failed_commit_build.commitish = CurrentCommit

-----------------------------------------------------------------------------
(* Properties of check_builder_images as a fixed point *)

\* check_builder_images has returned
BuilderImagesReturned == pc = "propagated"

\* The builder members of a component that are in the changing set
ChangingBuilders(meta) ==
    {member \in builders[meta] : member # NoMember /\ member \in changing_image_metas}

\* C29: when check_builder_images returns, the changing set is a fixed point
\* of the builder rule: no component outside the changing set has a builder
\* member reference that names a component inside it.
C29_BuilderFixedPoint ==
    BuilderImagesReturned =>
        \A meta \in Metas \ changing_image_metas : ChangingBuilders(meta) = {}

\* The loop returned after it followed a builder reference, with a component
\* left outside the changing set
C29_Witness ==
    /\ BuilderImagesReturned /\ run = 1
    /\ passes = 2
    /\ Metas \ changing_image_metas # {}
    /\ \E meta \in changing_image_metas :
          /\ ChangingBuilders(meta) # {}
          /\ assessment_reason[ReasonKey(meta, TRUE)][1] = "Builder group member has changed"

\* A pass of the while loop that does not end it
PassGoesOn == pc = "builder" /\ passes' = passes + 1 /\ pc' = "builder"

\* C30: check_builder_images terminates on every builder-reference graph,
\* self-references and cycles included, after at most n + 1 full passes for n
\* components, and every pass that does not end the loop makes the changing
\* set strictly larger.
C30_BuilderLoopTerminates ==
    /\ [](passes <= Cardinality(Metas) + 1)
    /\ [][PassGoesOn => Cardinality(changing_image_metas')
                            > Cardinality(changing_image_metas)]_vars
    /\ (pc = "builder") ~> (pc = "propagated")

\* The loop returned after as many passes as there are components, each but
\* the last having marked one more
C30_Witness ==
    /\ BuilderImagesReturned /\ run = 1
    /\ passes = Cardinality(Metas)
    /\ changing_image_metas = Metas
    /\ Cardinality(SeedSet) = 1

-----------------------------------------------------------------------------
(* Properties of the changing set as a whole *)

\* The set is closed under the descendants relation of the catalog
DescendantClosed(changing) == \A meta \in changing : get_descendants(meta) \subseteq changing

\* C31: after every completed marking operation, in any sequence of markings
\* by the driver and by the builder pass, the changing set is closed under the
\* descendants relation: every descendant of a member is a member.
C31_ClosedUnderDescendants == DescendantClosed(changing_image_metas)

\* The builder pass marked a component, and its descendant with it
C31_Witness ==
    /\ Marked
    /\ last_mark.hint.code = "BUILDER_CHANGING"
    /\ \E D \in get_descendants(last_mark.meta) \ {last_mark.meta} :
          /\ D \in changing_image_metas
          /\ assessment_reason[ReasonKey(D, TRUE)] = <<"Ancestor is changing", last_mark.meta>>
    /\ DescendantClosed(changing_image_metas)

-----------------------------------------------------------------------------
(* Properties of the push to the private remote *)

PushFailed(i) == git_ops.ops[i].result = "failed"

\* The reconciliation has not been left with an error: it is at the next
\* component, or the scan has begun after the last one
RunGoesOn ==
    /\ error \notin RebaseErrors
    /\ pc = "rebase" => pending # {}

\* C32: a push to the private remote is attempted 3 times at most; when every
\* attempt has failed, one Issue "Failed pushing to openshift-priv" is recorded
\* for the component, no error is raised, and the run goes on to the
\* components that remain.
C32_PushIsBoundedAndRecorded ==
    \A i \in Ran("git push") :
        /\ git_ops.ops[i].attempts \in 1..3
        /\ PushFailed(i) =>
              /\ git_ops.ops[i].attempts = 3
              /\ \E j \in IssuesOf(git_ops.name) : issues[j] = FailedPushing(git_ops.name)
              /\ RunGoesOn

\* The third attempt of a push has failed while components remain
C32_Witness ==
    /\ \E i \in Ran("git push") : PushFailed(i) /\ git_ops.ops[i].attempts = 3
    /\ issues[Len(issues)] = FailedPushing(git_ops.name)
    /\ error = NoError
    /\ pc = "rebase" /\ pending # {}

-----------------------------------------------------------------------------
(* Properties of the marking loop of the scan *)

\* The component is enabled, or disabled while disabled components are loaded
Loaded(meta) == mode[meta] = "enabled" \/ (mode[meta] = "disabled" /\ load_disabled)

\* The loop of scan_for_upstream_changes takes the result of meta in this step
Visits(meta) == pc = "mark" /\ meta \in pending /\ pending' = pending \ {meta}

\* add_image_meta_change(meta, the hint of meta) is called in this step
MarksOwn(meta) ==
    /\ last_mark' # last_mark
    /\ last_mark'.meta = meta
    /\ last_mark'.hint = upstream_changes[meta].hint
    /\ meta \in changing_image_metas'

\* The loop has marked meta on account of its own hint
OwnMarked(meta) ==
    /\ meta \notin pending
    /\ upstream_changes[meta].hint.rebuild
    /\ Loaded(meta)

NotForItself(meta) ==
    \/ upstream_changes[meta].hint.code \in {"DELAYING_NEXT_ATTEMPT", "BUILD_IS_UP_TO_DATE"}
    \/ ~Loaded(meta)

DescendantOfMarked(meta) ==
    \E other \in changing_image_metas \ {meta} :
        OwnMarked(other) /\ meta \in get_descendants(other)

\* C33: the scan marks a component on account of its own evaluation exactly
\* when its hint has rebuild = true and it is enabled, or disabled with
\* loading of disabled components requested; otherwise the step leaves the
\* changing set alone. A component whose hint is DELAYING_NEXT_ATTEMPT or
\* BUILD_IS_UP_TO_DATE, or that is skipped as disabled, is in the changing set
\* only as a descendant of another component that was marked.
C33_SeedsAreOwnRebuilds ==
    [][\A meta \in Metas :
          Visits(meta) =>
              /\ MarksOwn(meta) <=> (upstream_changes[meta].hint.rebuild /\ Loaded(meta))
              /\ ~MarksOwn(meta) => changing_image_metas' = changing_image_metas
              /\ \A m \in changing_image_metas' :
                    NotForItself(m) => DescendantOfMarked(m)']_vars

\* A component that is skipped as disabled and whose own hint asks for a
\* rebuild is in the changing set as the descendant of a marked one, and a
\* delayed component has been visited and left out
C33_Witness ==
    /\ pc = "mark"
    /\ \E m \in changing_image_metas :
          /\ ~Loaded(m) /\ upstream_changes[m].hint.rebuild /\ m \notin pending
          /\ DescendantOfMarked(m)
    /\ \E d \in Metas \ (pending \cup changing_image_metas) :
          /\ upstream_changes[d].hint.code = "DELAYING_NEXT_ATTEMPT" /\ Loaded(d)

-----------------------------------------------------------------------------
(* Where the members of the changing set come from *)

\* The components the driver marked for a cause of their own: the seeds of a
\* propagation, and the results the marking loop of the scan has marked
SeedMetas ==
    {seed[1] : seed \in seeds} \cup {m \in Metas : Gathered /\ OwnMarked(m)}

\* What the ancestor push and the builder rule can reach from the set S
RECURSIVE Derivable(_)
Derivable(S) ==
    LET pushed == UNION {get_descendants(m) : m \in S}
        built_on == {m \in Metas : \E member \in builders[m] \ {NoMember} : member \in S}
        next == S \cup pushed \cup built_on
    IN IF next = S THEN S ELSE Derivable(next)

\* The descendants of the components marked for a cause of their own
PushedFromSeeds == SeedMetas \cup UNION {get_descendants(m) : m \in SeedMetas}

-----------------------------------------------------------------------------
(* Properties of the images section of the report *)

HasReason(meta) ==
    /\ ReasonKey(meta, TRUE) \in DOMAIN assessment_reason
    /\ assessment_reason[ReasonKey(meta, TRUE)] \notin {<<>>, <<"None">>}

EntriesOf(meta) == {entry \in report : entry.name = meta}

\* C35: in every reachable state each member of the changing set has a reason
\* recorded for (component, rebuild = true); the images section of the report
\* has exactly one entry for each component of the changing set and none for
\* any other component, and every entry has changed = true and the non-empty
\* reason recorded for the component.
C35_ReportListsChangingSet ==
    /\ \A meta \in changing_image_metas : HasReason(meta)
    /\ pc = "done" =>
          /\ \A meta \in changing_image_metas : Cardinality(EntriesOf(meta)) = 1
          /\ \A entry \in report :
                /\ entry.name \in changing_image_metas
                /\ entry.changed = TRUE
                /\ entry.reason \notin {<<>>, <<"None">>}
                /\ entry.reason = assessment_reason[ReasonKey(entry.name, TRUE)]

\* The report lists a component for its own hint and one for its ancestor, and
\* leaves out a component that is not changing
C35_Witness ==
    /\ pc = "done"
    /\ \E entry \in report : entry.reason[1] = "Ancestor is changing"
    /\ \E entry \in report : entry.reason = upstream_changes[entry.name].hint.reason
    /\ \E meta \in Metas \ changing_image_metas : EntriesOf(meta) = {}

-----------------------------------------------------------------------------
(* The order in which the seeds are processed *)

\* The components whose reason in this propagation is not the one the first
\* propagation recorded
ReasonDiffers ==
    {m \in changing_image_metas \cap first_result :
        assessment_reason[ReasonKey(m, TRUE)] # first_reasons[ReasonKey(m, TRUE)]}

\* C36: the changing set that seeding and propagation end with is decided by
\* the seeds and the catalog alone, whatever the order in which the seeds, the
\* images and their builders are taken: the least set that holds the seeds and
\* is closed under descendants and under the builder rule when
\* check_builder_images returns, the seeds and their descendants when the
\* marking loop of the scan ends; a second propagation from the same seeds in
\* another order ends with the same set.
C36_OrderIndependent ==
    /\ pc = "propagated" => changing_image_metas = Derivable(SeedMetas)
    /\ (pc = "propagated" /\ run = 2) => changing_image_metas = first_result
    /\ (Gathered /\ pending = {}) => changing_image_metas = PushedFromSeeds

\* The second propagation took the seeds in another order: it ends with the
\* set of the first, and with another reason for a component
C36_Witness ==
    /\ pc = "propagated" /\ run = 2
    /\ Cardinality(seeds) = 2
    /\ changing_image_metas = first_result
    /\ ReasonDiffers # {}

====
